---------------------------- MODULE Spec2Model ----------------------------
(***************************************************************************)
(* A model of saya's pipeline core: the polling block ingestor, the        *)
(* Atlantic layout-bridge prover (worker pool, trace generator, persistent *)
(* checkpoints) and the Piltover settlement backend.                       *)
(*                                                                         *)
(* The three daemons share no state: each builds its own FinishHandle and  *)
(* they are connected only through stages that are not part of the model   *)
(* (SNOS prover, DA publisher), which appear here as the environment at    *)
(* the two ends of every channel.  `daemon` records which daemon's run()   *)
(* a behaviour follows.                                                    *)
(***************************************************************************)
EXTENDS Naturals, Sequences, FiniteSets

\* ------------------------------------------------------------- bounds ----
\* Blocks are numbered 1..NumBlocks; 0 stands for "no block" / "no record".
NumBlocks == 2
\* Size of the layout-bridge worker pool explored (WORKER_COUNT is 10).
MaxWorkers == 2
\* Capacity of every bounded mpsc channel.
ChanCap == 1
\* Crash-and-restart events of the process in one behaviour.
MaxCrashes == 1
\* Remote jobs of one kind submitted for one block in one behaviour.
MaxSubmits == 2
\* Integrity call chunks a proof may split into.
MaxChunks == 2
\* Largest start_block and largest account nonce at start.
MaxStart == 1

\* -------------------------------------------------- program constants ----
\* layout_bridge.rs: const MAX_ATTEMPTS: u32 = 3
MAX_ATTEMPTS == 3

Blocks == 1..NumBlocks
Workers == 1..MaxWorkers
Daemons == {"ingestor", "bridge", "settlement"}
\* AtlanticJobStatus, plus the two outcomes of get_query_jobs the poll loops
\* ignore: a transport error and a job list without the wanted job_name.
JobStatus == {"Completed", "Failed", "InProgress"}
PollOutcome == JobStatus \cup {"TransportError", "NoJob"}

VARIABLES
    daemon,        \* which daemon this behaviour follows
    shutdown,      \* FinishHandle: shutdown has been requested
    finished,      \* FinishHandle: finish() has been called
    nFinish,       \* number of finish() calls of the running daemon
    \* ---- layout-bridge prover
    nWorkers,      \* workers spawned by run()
    pc,            \* worker -> position in worker()
    blk,           \* worker -> block_number of new_snos_proof (0: none)
    path,          \* worker -> "none" | "hit" | "resume" | "fresh"
    qid,           \* worker -> atlantic_query_id held locally (0: none)
    attempts,      \* worker -> attempts of the trace retry loop
    sawCompleted,  \* worker -> the wait loop left on status Completed
    rxLock,        \* holder of the Mutex around statement_channel (0: free)
    stmtChan,      \* statement_channel: blocks of the queued SnosProofs
    stmtClosed,    \* every Sender of statement_channel was dropped
    nextIn,        \* next block the SNOS prover will send
    proofChan,     \* proof_channel: blocks of the queued RecursiveProofs
    proofClosed,   \* the Receiver of proof_channel was dropped
    emitted,       \* history: RecursiveProofs accepted by proof_channel
    proofDb,       \* storage: block -> proof(block, Bridge) present
    pieDb,         \* storage: block -> pie(block, Bridge) present
    proofQidDb,    \* storage: block -> query_id(block, BridgeProof) (0: none)
    traceQidDb,    \* storage: block -> query_id(block, BridgeTrace) (0: none)
    nSubmitProof,  \* remote prover: block -> submit_proof_generation calls
    nSubmitTrace,  \* remote prover: block -> submit_trace_generation calls
    crashes,       \* crash-and-restart events so far
    \* ---- block ingestor
    ingPc, start_block, current_block, blockChan, blockClosed, ingOut,
    \* ---- settlement backend
    setPc, mock, daChan, daClosed, nextDa, setBlk, nChunks, ind, nonce,
    nonceFetches, chainNonce, txLog, nConfirmed, cursorChan, cursorClosed,
    cursors,
    \* ---- stage builders
    bldSet,        \* builder -> the optional fields set so far
    bldResult      \* builder -> what build() returned ("none": not called)

handleVars == <<shutdown, finished, nFinish>>
workerVars == <<pc, blk, path, qid, attempts, sawCompleted, rxLock>>
chanVars == <<stmtChan, stmtClosed, nextIn, proofChan, proofClosed>>
histVars == <<emitted>>
dbVars == <<proofDb, pieDb, proofQidDb, traceQidDb>>
remoteVars == <<nSubmitProof, nSubmitTrace>>
bridgeVars == <<nWorkers, workerVars, chanVars, histVars, dbVars, remoteVars,
                crashes>>
ingVars == <<ingPc, start_block, current_block, blockChan, blockClosed, ingOut>>
setVars == <<setPc, mock, daChan, daClosed, nextDa, setBlk, nChunks, ind, nonce,
             nonceFetches, chainNonce, txLog, nConfirmed, cursorChan,
             cursorClosed, cursors>>
builderVars == <<bldSet, bldResult>>
vars == <<daemon, builderVars, handleVars, bridgeVars, ingVars, setVars>>

Spawned == 1..nWorkers

\* --------------------------------------------------------------- Init ----
InitHandle ==
    /\ shutdown = FALSE
    /\ finished = FALSE
    /\ nFinish = 0

InitBridge ==
    /\ pc = [w \in Workers |-> IF w <= nWorkers THEN "idle" ELSE "unspawned"]
    /\ blk = [w \in Workers |-> 0]
    /\ path = [w \in Workers |-> "none"]
    /\ qid = [w \in Workers |-> 0]
    /\ attempts = [w \in Workers |-> 0]
    /\ sawCompleted = [w \in Workers |-> FALSE]
    /\ rxLock = 0
    /\ stmtChan = <<>>
    /\ stmtClosed = FALSE
    /\ nextIn = 1
    /\ proofChan = <<>>
    /\ proofClosed = FALSE
    /\ emitted = <<>>
    /\ proofDb = [b \in Blocks |-> FALSE]
    /\ pieDb = [b \in Blocks |-> FALSE]
    /\ proofQidDb = [b \in Blocks |-> 0]
    /\ traceQidDb = [b \in Blocks |-> 0]
    /\ nSubmitProof = [b \in Blocks |-> 0]
    /\ nSubmitTrace = [b \in Blocks |-> 0]
    /\ crashes = 0

InitIngestor ==
    /\ ingPc = "prove"
    /\ current_block = start_block
    /\ blockChan = <<>>
    /\ blockClosed = FALSE
    /\ ingOut = <<>>

InitSettlement ==
    /\ setPc = "recv"
    /\ daChan = <<>>
    /\ daClosed = FALSE
    /\ nextDa = 1
    /\ setBlk = 0
    /\ nChunks = 0
    /\ ind = 0
    /\ nonce = 0
    /\ nonceFetches = 0
    /\ txLog = <<>>
    /\ nConfirmed = 0
    /\ cursorChan = <<>>
    /\ cursorClosed = FALSE
    /\ cursors = <<>>

\* The optional fields of each builder, in the order build() tests them.
Required(b) ==
    CASE b = "ingestor" -> <<"start_block", "channel">>
      [] b = "bridge" -> <<"statement_channel", "proof_channel">>
      [] b = "settlement" -> <<"da_channel", "cursor_channel">>

Fields(b) == {Required(b)[i] : i \in 1..Len(Required(b))}

\* new(): every optional field is None.
InitBuilders ==
    /\ bldSet = [b \in Daemons |-> {}]
    /\ bldResult = [b \in Daemons |-> "none"]

\* The daemon that runs was returned by build() with its fields set.
InitBuilt ==
    /\ bldSet = [b \in Daemons |-> IF b = daemon THEN Fields(b) ELSE {}]
    /\ bldResult = [b \in Daemons |-> IF b = daemon THEN "Ok" ELSE "none"]

InitStages ==
    /\ daemon \in Daemons
    /\ nWorkers \in IF daemon = "bridge" THEN 1..MaxWorkers ELSE {1}
    /\ start_block \in IF daemon = "ingestor" THEN 0..MaxStart ELSE {0}
    /\ mock \in IF daemon = "settlement" THEN BOOLEAN ELSE {FALSE}
    /\ chainNonce \in IF daemon = "settlement" THEN 0..MaxStart ELSE {0}
    /\ InitHandle
    /\ InitBridge
    /\ InitIngestor
    /\ InitSettlement

Init == InitStages /\ InitBuilt


\* ------------------------------------------------------ FinishHandle ----
\* The shutdown controller requests shutdown of the running daemon.
RequestShutdown ==
    /\ shutdown = FALSE
    /\ shutdown' = TRUE
    /\ UNCHANGED <<daemon, builderVars, finished, nFinish, bridgeVars, ingVars, setVars>>

\* ------------------------------------------- layout-bridge: helpers ----
Goto(w, p) == pc' = [pc EXCEPT ![w] = p]

PanicPcs == {"panic_job_failed", "panic_trace_exhausted", "panic_unwrap"}
Terminated == {"exit"} \cup PanicPcs

\* `continue` / the end of the loop body: the locals of the iteration die.
NextIteration(w) ==
    /\ Goto(w, "idle")
    /\ blk' = [blk EXCEPT ![w] = 0]
    /\ path' = [path EXCEPT ![w] = "none"]
    /\ qid' = [qid EXCEPT ![w] = 0]
    /\ attempts' = [attempts EXCEPT ![w] = 0]
    /\ sawCompleted' = [sawCompleted EXCEPT ![w] = FALSE]

\* Deliver with the item put at the front of the channel.
DeliverFront(w) ==
    /\ proofChan' = <<blk[w]>> \o proofChan
    /\ emitted' = <<[blk |-> blk[w], run |-> crashes]>> \o emitted

\* task_tx.send(new_proof) completing with Ok: the item is in the channel.
Deliver(w) ==
    /\ proofChan' = Append(proofChan, blk[w])
    /\ emitted' = Append(emitted, [blk |-> blk[w], run |-> crashes])

\* TraceAttemptFailed with the budget tested by > instead of >=.
TraceAttemptFailedOneMore(w) ==
    /\ attempts' = [attempts EXCEPT ![w] = @ + 1]
    /\ IF attempts[w] + 1 > MAX_ATTEMPTS
       THEN Goto(w, "panic_trace_exhausted")
       ELSE Goto(w, "tg_get_qid")

\* generate_trace returned Err(e): the retry loop of worker().
TraceAttemptFailed(w) ==
    /\ attempts' = [attempts EXCEPT ![w] = @ + 1]
    /\ IF attempts[w] + 1 >= MAX_ATTEMPTS
       THEN Goto(w, "panic_trace_exhausted")
       ELSE Goto(w, "tg_get_qid")

\* ------------------------------------------- layout-bridge: worker() ----
\* task_rx.lock().await
LbLock(w) ==
    /\ daemon = "bridge"
    /\ pc[w] = "idle"
    /\ rxLock = 0
    /\ rxLock' = w
    /\ Goto(w, "recv")
    /\ UNCHANGED <<daemon, builderVars, handleVars, nWorkers, blk, path, qid, attempts,
                   sawCompleted, chanVars, histVars, dbVars, remoteVars,
                   crashes, ingVars, setVars>>

\* LbRecv with the MutexGuard kept for the whole iteration: the lock is not
\* released when recv() returns an item.
LbRecvKeepLock(w) ==
    /\ daemon = "bridge"
    /\ pc[w] = "recv"
    /\ rxLock = w
    /\ \/ /\ stmtChan # <<>>
          /\ blk' = [blk EXCEPT ![w] = Head(stmtChan)]
          /\ stmtChan' = Tail(stmtChan)
          /\ Goto(w, "lookup")
          /\ UNCHANGED rxLock
       \/ /\ stmtChan = <<>>
          /\ stmtClosed
          /\ Goto(w, "exit")
          /\ rxLock' = 0
          /\ UNCHANGED <<blk, stmtChan>>
    /\ UNCHANGED <<daemon, builderVars, handleVars, nWorkers, path, qid,
                   attempts, sawCompleted, stmtClosed, nextIn, proofChan,
                   proofClosed, emitted, dbVars, remoteVars, crashes, ingVars,
                   setVars>>

\* .recv().await under the lock: Some(new_block), or None => break
LbRecv(w) ==
    /\ daemon = "bridge"
    /\ pc[w] = "recv"
    /\ rxLock = w
    /\ \/ /\ stmtChan # <<>>
          /\ blk' = [blk EXCEPT ![w] = Head(stmtChan)]
          /\ stmtChan' = Tail(stmtChan)
          /\ Goto(w, "lookup")
       \/ /\ stmtChan = <<>>
          /\ stmtClosed
          /\ Goto(w, "exit")
          /\ UNCHANGED <<blk, stmtChan>>
    /\ rxLock' = 0
    /\ UNCHANGED <<daemon, builderVars, handleVars, nWorkers, path, qid, attempts,
                   sawCompleted, stmtClosed, nextIn, proofChan, proofClosed,
                   emitted, dbVars, remoteVars, crashes, ingVars, setVars>>

\* LbLookup with the cache hit dropped instead of forwarded: proof(block,
\* Bridge) present => continue.
LbLookupDropHit(w) ==
    /\ daemon = "bridge"
    /\ pc[w] = "lookup"
    /\ IF proofDb[blk[w]]
       THEN /\ NextIteration(w)
       ELSE IF proofQidDb[blk[w]] # 0
       THEN /\ path' = [path EXCEPT ![w] = "resume"]
            /\ qid' = [qid EXCEPT ![w] = proofQidDb[blk[w]]]
            /\ Goto(w, "wait_sleep")
            /\ UNCHANGED <<blk, attempts, sawCompleted>>
       ELSE /\ path' = [path EXCEPT ![w] = "fresh"]
            /\ Goto(w, IF pieDb[blk[w]] THEN "submit_proof" ELSE "tg_get_qid")
            /\ UNCHANGED <<blk, qid, attempts, sawCompleted>>
    /\ UNCHANGED <<daemon, builderVars, handleVars, nWorkers, rxLock, chanVars, histVars,
                   dbVars, remoteVars, crashes, ingVars, setVars>>

\* LbLookup without Step B: a persisted query_id(block, BridgeProof) is not
\* looked up, the block goes on to Step C.
LbLookupSkipB(w) ==
    /\ daemon = "bridge"
    /\ pc[w] = "lookup"
    /\ IF proofDb[blk[w]]
       THEN /\ path' = [path EXCEPT ![w] = "hit"]
            /\ Goto(w, "send_hit")
       ELSE /\ path' = [path EXCEPT ![w] = "fresh"]
            /\ Goto(w, IF pieDb[blk[w]] THEN "submit_proof" ELSE "tg_get_qid")
    /\ UNCHANGED <<daemon, builderVars, handleVars, nWorkers, blk, qid, attempts,
                   sawCompleted, rxLock, chanVars, histVars, dbVars,
                   remoteVars, crashes, ingVars, setVars>>

\* LbLookup with Steps A and B in the other order: the query id is looked up
\* before the proof.
LbLookupBFirst(w) ==
    /\ daemon = "bridge"
    /\ pc[w] = "lookup"
    /\ IF proofQidDb[blk[w]] # 0
       THEN /\ path' = [path EXCEPT ![w] = "resume"]
            /\ qid' = [qid EXCEPT ![w] = proofQidDb[blk[w]]]
            /\ Goto(w, "wait_sleep")
       ELSE IF proofDb[blk[w]]
       THEN /\ path' = [path EXCEPT ![w] = "hit"]
            /\ Goto(w, "send_hit")
            /\ UNCHANGED qid
       ELSE /\ path' = [path EXCEPT ![w] = "fresh"]
            /\ Goto(w, IF pieDb[blk[w]] THEN "submit_proof" ELSE "tg_get_qid")
            /\ UNCHANGED qid
    /\ UNCHANGED <<daemon, builderVars, handleVars, nWorkers, blk, attempts, sawCompleted,
                   rxLock, chanVars, histVars, dbVars, remoteVars, crashes,
                   ingVars, setVars>>

\* Steps A, B and C: the three storage lookups that choose the path of the
\* block: db.get_proof(block, Bridge), db.get_query_id(block, BridgeProof),
\* db.get_pie(block, Bridge).  Only the worker that holds the block writes its
\* records, so the three reads see one storage state.
LbLookup(w) ==
    /\ daemon = "bridge"
    /\ pc[w] = "lookup"
    /\ IF proofDb[blk[w]]
       THEN /\ path' = [path EXCEPT ![w] = "hit"]
            /\ Goto(w, "send_hit")
            /\ UNCHANGED qid
       ELSE IF proofQidDb[blk[w]] # 0
       THEN /\ path' = [path EXCEPT ![w] = "resume"]
            /\ qid' = [qid EXCEPT ![w] = proofQidDb[blk[w]]]
            /\ Goto(w, "wait_sleep")
       ELSE /\ path' = [path EXCEPT ![w] = "fresh"]
            /\ Goto(w, IF pieDb[blk[w]] THEN "submit_proof" ELSE "tg_get_qid")
            /\ UNCHANGED qid
    /\ UNCHANGED <<daemon, builderVars, handleVars, nWorkers, blk, attempts, sawCompleted,
                   rxLock, chanVars, histVars, dbVars, remoteVars, crashes,
                   ingVars, setVars>>

\* task_tx.send(new_proof).await.unwrap(); continue   (cache hit, resumed job)
LbSendUnwrap(w) ==
    /\ daemon = "bridge"
    /\ pc[w] \in {"send_hit", "send_resume"}
    /\ \/ /\ ~proofClosed
          /\ Len(proofChan) < ChanCap
          /\ Deliver(w)
          /\ NextIteration(w)
       \/ /\ proofClosed
          /\ Goto(w, "panic_unwrap")
          /\ UNCHANGED <<blk, path, qid, attempts, sawCompleted, proofChan,
                         emitted>>
    /\ UNCHANGED <<daemon, builderVars, handleVars, nWorkers, rxLock, stmtChan, stmtClosed,
                   nextIn, proofClosed, dbVars, remoteVars, crashes,
                   ingVars, setVars>>

\* wait_for_proof: sleep(PROOF_STATUS_POLL_INTERVAL), then
\* if finish_handle.is_shutdown_requested() { break }
LbWaitSleep(w) ==
    /\ daemon = "bridge"
    /\ pc[w] = "wait_sleep"
    /\ IF shutdown THEN Goto(w, "get_proof") ELSE Goto(w, "wait_poll")
    /\ UNCHANGED <<daemon, builderVars, handleVars, nWorkers, blk, path, qid, attempts,
                   sawCompleted, rxLock, chanVars, histVars, dbVars,
                   remoteVars, crashes, ingVars, setVars>>

\* wait_for_proof: client.get_query_jobs and the match on the job's status
LbWaitPoll(w) ==
    /\ daemon = "bridge"
    /\ pc[w] = "wait_poll"
    /\ \E r \in PollOutcome :
          CASE r = "Completed" ->
                  /\ sawCompleted' = [sawCompleted EXCEPT ![w] = TRUE]
                  /\ Goto(w, "get_proof")
            [] r = "Failed" ->
                  /\ Goto(w, "panic_job_failed")
                  /\ UNCHANGED sawCompleted
            [] OTHER ->
                  /\ Goto(w, "wait_sleep")
                  /\ UNCHANGED sawCompleted
    /\ UNCHANGED <<daemon, builderVars, handleVars, nWorkers, blk, path, qid, attempts,
                   rxLock, chanVars, histVars, dbVars, remoteVars, crashes,
                   ingVars, setVars>>

\* LbGetProof with the downloaded proof returned without being persisted.
LbGetProofNoWrite(w) ==
    /\ daemon = "bridge"
    /\ pc[w] = "get_proof"
    /\ Goto(w, IF path[w] = "resume" THEN "send_resume" ELSE "send_fresh")
    /\ UNCHANGED <<daemon, builderVars, handleVars, nWorkers, blk, path, qid,
                   attempts, sawCompleted, rxLock, chanVars, histVars, dbVars,
                   remoteVars, crashes, ingVars, setVars>>

\* get_proof: client.get_proof(..).unwrap(), db.add_proof(..).unwrap(), parse
LbGetProof(w) ==
    /\ daemon = "bridge"
    /\ pc[w] = "get_proof"
    /\ \/ /\ proofDb' = [proofDb EXCEPT ![blk[w]] = TRUE]
          /\ Goto(w, IF path[w] = "resume" THEN "send_resume" ELSE "send_fresh")
       \/ /\ Goto(w, "panic_unwrap")
          /\ UNCHANGED proofDb
    /\ UNCHANGED <<daemon, builderVars, handleVars, nWorkers, blk, path, qid, attempts,
                   sawCompleted, rxLock, chanVars, histVars, pieDb, proofQidDb,
                   traceQidDb, remoteVars, crashes, ingVars, setVars>>

\* TgGetQueryId with the stored record ignored: a job is always submitted.
TgGetQueryIdIgnoreRecord(w) ==
    /\ daemon = "bridge"
    /\ pc[w] = "tg_get_qid"
    /\ Goto(w, "tg_submit")
    /\ UNCHANGED <<daemon, builderVars, handleVars, nWorkers, blk, path, qid, attempts,
                   sawCompleted, rxLock, chanVars, histVars, dbVars,
                   remoteVars, crashes, ingVars, setVars>>

\* generate_trace: db.get_query_id(block, Query::BridgeTrace)
TgGetQueryId(w) ==
    /\ daemon = "bridge"
    /\ pc[w] = "tg_get_qid"
    /\ IF traceQidDb[blk[w]] # 0
       THEN /\ qid' = [qid EXCEPT ![w] = traceQidDb[blk[w]]]
            /\ Goto(w, "tg_poll")
       ELSE /\ Goto(w, "tg_submit")
            /\ UNCHANGED qid
    /\ UNCHANGED <<daemon, builderVars, handleVars, nWorkers, blk, path, attempts,
                   sawCompleted, rxLock, chanVars, histVars, dbVars,
                   remoteVars, crashes, ingVars, setVars>>

\* generate_trace: atlantic_client.submit_trace_generation(..).await?
TgSubmit(w) ==
    /\ daemon = "bridge"
    /\ pc[w] = "tg_submit"
    /\ \/ /\ nSubmitTrace[blk[w]] < MaxSubmits
          /\ nSubmitTrace' = [nSubmitTrace EXCEPT ![blk[w]] = @ + 1]
          /\ qid' = [qid EXCEPT ![w] = nSubmitTrace[blk[w]] + 1]
          /\ Goto(w, "tg_add_qid")
          /\ UNCHANGED attempts
       \/ /\ TraceAttemptFailed(w)
          /\ UNCHANGED <<nSubmitTrace, qid>>
    /\ UNCHANGED <<daemon, builderVars, handleVars, nWorkers, blk, path, sawCompleted,
                   rxLock, chanVars, histVars, dbVars, nSubmitProof, crashes,
                   ingVars, setVars>>

\* TgAddQueryId with the write lost: the call returns Ok, no record is kept.
TgAddQueryIdNoWrite(w) ==
    /\ daemon = "bridge"
    /\ pc[w] = "tg_add_qid"
    /\ \/ /\ Goto(w, "tg_poll")
          /\ UNCHANGED <<attempts, qid>>
       \/ /\ TraceAttemptFailed(w)
          /\ qid' = [qid EXCEPT ![w] = 0]
    /\ UNCHANGED <<daemon, builderVars, handleVars, nWorkers, blk, path, sawCompleted,
                   rxLock, chanVars, histVars, dbVars, remoteVars, crashes,
                   ingVars, setVars>>

\* generate_trace: retry_with_backoff(|| db.add_query_id(..), .., 3, 2 s).await?
TgAddQueryId(w) ==
    /\ daemon = "bridge"
    /\ pc[w] = "tg_add_qid"
    /\ \/ /\ traceQidDb' = [traceQidDb EXCEPT ![blk[w]] = qid[w]]
          /\ Goto(w, "tg_poll")
          /\ UNCHANGED <<attempts, qid>>
       \/ /\ TraceAttemptFailed(w)
          /\ qid' = [qid EXCEPT ![w] = 0]
          /\ UNCHANGED traceQidDb
    /\ UNCHANGED <<daemon, builderVars, handleVars, nWorkers, blk, path, sawCompleted,
                   rxLock, chanVars, histVars, proofDb, pieDb, proofQidDb,
                   remoteVars, crashes, ingVars, setVars>>

\* generate_trace: the poll loop: sleep(PROOF_STATUS_POLL_INTERVAL), then
\* get_query_jobs and the match on the TRACE_GENERATION job's status
TgPoll(w) ==
    /\ daemon = "bridge"
    /\ pc[w] = "tg_poll"
    /\ \E r \in PollOutcome :
          CASE r = "Completed" -> Goto(w, "tg_get_trace")
            [] r = "Failed" -> Goto(w, "panic_job_failed")
            [] OTHER -> Goto(w, "tg_poll")
    /\ UNCHANGED <<daemon, builderVars, handleVars, nWorkers, blk, path, qid, attempts,
                   sawCompleted, rxLock, chanVars, histVars, dbVars,
                   remoteVars, crashes, ingVars, setVars>>

\* generate_trace: get_trace(..).await? and CairoPie::from_bytes(..)?
TgGetTrace(w) ==
    /\ daemon = "bridge"
    /\ pc[w] = "tg_get_trace"
    /\ \/ /\ Goto(w, "add_pie")
          /\ qid' = [qid EXCEPT ![w] = 0]
          /\ UNCHANGED attempts
       \/ /\ TraceAttemptFailed(w)
          /\ qid' = [qid EXCEPT ![w] = 0]
    /\ UNCHANGED <<daemon, builderVars, handleVars, nWorkers, blk, path, sawCompleted,
                   rxLock, chanVars, histVars, dbVars, remoteVars, crashes,
                   ingVars, setVars>>

\* LbAddPie with the compressed pie submitted without being persisted.
LbAddPieNoWrite(w) ==
    /\ daemon = "bridge"
    /\ pc[w] = "add_pie"
    /\ Goto(w, "submit_proof")
    /\ UNCHANGED <<daemon, builderVars, handleVars, nWorkers, blk, path, qid,
                   attempts, sawCompleted, rxLock, chanVars, histVars, dbVars,
                   remoteVars, crashes, ingVars, setVars>>

\* compress_pie(..).await.unwrap(); db.add_pie(..).await.unwrap()
LbAddPie(w) ==
    /\ daemon = "bridge"
    /\ pc[w] = "add_pie"
    /\ \/ /\ pieDb' = [pieDb EXCEPT ![blk[w]] = TRUE]
          /\ Goto(w, "submit_proof")
       \/ /\ Goto(w, "panic_unwrap")
          /\ UNCHANGED pieDb
    /\ UNCHANGED <<daemon, builderVars, handleVars, nWorkers, blk, path, qid, attempts,
                   sawCompleted, rxLock, chanVars, histVars, proofDb,
                   proofQidDb, traceQidDb, remoteVars, crashes, ingVars,
                   setVars>>

\* Step D: client.submit_proof_generation(..).await.unwrap()
LbSubmitProof(w) ==
    /\ daemon = "bridge"
    /\ pc[w] = "submit_proof"
    /\ \/ /\ nSubmitProof[blk[w]] < MaxSubmits
          /\ nSubmitProof' = [nSubmitProof EXCEPT ![blk[w]] = @ + 1]
          /\ qid' = [qid EXCEPT ![w] = nSubmitProof[blk[w]] + 1]
          /\ Goto(w, "add_qid")
       \/ /\ Goto(w, "panic_unwrap")
          /\ UNCHANGED <<nSubmitProof, qid>>
    /\ UNCHANGED <<daemon, builderVars, handleVars, nWorkers, blk, path, attempts,
                   sawCompleted, rxLock, chanVars, histVars, dbVars,
                   nSubmitTrace, crashes, ingVars, setVars>>

\* LbAddQueryId with the record not written before the job is awaited.
LbAddQueryIdNoWrite(w) ==
    /\ daemon = "bridge"
    /\ pc[w] = "add_qid"
    /\ Goto(w, "wait_sleep")
    /\ UNCHANGED <<daemon, builderVars, handleVars, nWorkers, blk, path, qid,
                   attempts, sawCompleted, rxLock, chanVars, histVars, dbVars,
                   remoteVars, crashes, ingVars, setVars>>

\* Step D: db.add_query_id(block, atlantic_query_id, BridgeProof).await.unwrap()
LbAddQueryId(w) ==
    /\ daemon = "bridge"
    /\ pc[w] = "add_qid"
    /\ \/ /\ proofQidDb' = [proofQidDb EXCEPT ![blk[w]] = qid[w]]
          /\ Goto(w, "wait_sleep")
       \/ /\ Goto(w, "panic_unwrap")
          /\ UNCHANGED proofQidDb
    /\ UNCHANGED <<daemon, builderVars, handleVars, nWorkers, blk, path, qid, attempts,
                   sawCompleted, rxLock, chanVars, histVars, proofDb, pieDb,
                   traceQidDb, remoteVars, crashes, ingVars, setVars>>

\* select! { shutdown_requested() => break, task_tx.send(new_proof) => {} }
LbSendSelect(w) ==
    /\ daemon = "bridge"
    /\ pc[w] = "send_fresh"
    /\ \/ /\ shutdown
          /\ Goto(w, "exit")
          /\ UNCHANGED <<blk, path, qid, attempts, sawCompleted, proofChan,
                         emitted>>
       \/ /\ ~proofClosed
          /\ Len(proofChan) < ChanCap
          /\ Deliver(w)
          /\ NextIteration(w)
       \/ /\ proofClosed
          /\ NextIteration(w)
          /\ UNCHANGED <<proofChan, emitted>>
    /\ UNCHANGED <<daemon, builderVars, handleVars, nWorkers, rxLock, stmtChan, stmtClosed,
                   nextIn, proofClosed, dbVars, remoteVars, crashes,
                   ingVars, setVars>>

\* LbFinish with finish() called as soon as one worker has returned.
LbFinishAfterAny ==
    /\ daemon = "bridge"
    /\ ~finished
    /\ \E w \in Spawned : pc[w] \in Terminated
    /\ finished' = TRUE
    /\ nFinish' = nFinish + 1
    /\ UNCHANGED <<daemon, builderVars, shutdown, bridgeVars, ingVars, setVars>>

\* run(): join_all(workers).await; self.finish_handle.finish()
LbFinish ==
    /\ daemon = "bridge"
    /\ ~finished
    /\ \A w \in Spawned : pc[w] \in Terminated
    /\ finished' = TRUE
    /\ nFinish' = nFinish + 1
    /\ UNCHANGED <<daemon, builderVars, shutdown, bridgeVars, ingVars, setVars>>

\* --------------------------------------- layout-bridge: environment ----
\* The SNOS prover sends the next SnosProof, in ascending block order.
SnosSend ==
    /\ daemon = "bridge"
    /\ ~stmtClosed
    /\ nextIn <= NumBlocks
    /\ Len(stmtChan) < ChanCap
    /\ stmtChan' = Append(stmtChan, nextIn)
    /\ nextIn' = nextIn + 1
    /\ UNCHANGED <<daemon, builderVars, handleVars, nWorkers, workerVars, stmtClosed,
                   proofChan, proofClosed, histVars, dbVars, remoteVars,
                   crashes, ingVars, setVars>>

\* The SNOS prover returns from run() and its Sender is dropped.
SnosClose ==
    /\ daemon = "bridge"
    /\ ~stmtClosed
    /\ stmtClosed' = TRUE
    /\ UNCHANGED <<daemon, builderVars, handleVars, nWorkers, workerVars, stmtChan, nextIn,
                   proofChan, proofClosed, histVars, dbVars, remoteVars,
                   crashes, ingVars, setVars>>

\* The DA stage takes a RecursiveProof from proof_channel.
DaTake ==
    /\ daemon = "bridge"
    /\ proofChan # <<>>
    /\ ~proofClosed
    /\ proofChan' = Tail(proofChan)
    /\ UNCHANGED <<daemon, builderVars, handleVars, nWorkers, workerVars, stmtChan,
                   stmtClosed, nextIn, proofClosed, histVars, dbVars,
                   remoteVars, crashes, ingVars, setVars>>

\* The DA stage returns from run() and its Receiver is dropped.
DaDrop ==
    /\ daemon = "bridge"
    /\ ~proofClosed
    /\ proofClosed' = TRUE
    /\ proofChan' = <<>>
    /\ UNCHANGED <<daemon, builderVars, handleVars, nWorkers, workerVars, stmtChan,
                   stmtClosed, nextIn, histVars, dbVars, remoteVars, crashes,
                   ingVars, setVars>>

EmittedBlocks == {emitted[i].blk : i \in 1..Len(emitted)}

\* The first block no RecursiveProof was forwarded for yet.
FirstUnemitted ==
    IF Blocks \ EmittedBlocks = {} THEN NumBlocks + 1
    ELSE CHOOSE b \in Blocks \ EmittedBlocks :
            \A c \in Blocks \ EmittedBlocks : b <= c

\* The process dies at an arbitrary point and is started again: tasks,
\* channels and handles are new, storage and the remote prover's jobs stay.
\* The upstream stages replay from a block at or before the first one whose
\* RecursiveProof was not forwarded.
CrashRestart ==
    /\ daemon = "bridge"
    /\ crashes < MaxCrashes
    /\ crashes' = crashes + 1
    /\ pc' = [w \in Workers |-> IF w <= nWorkers THEN "idle" ELSE "unspawned"]
    /\ blk' = [w \in Workers |-> 0]
    /\ path' = [w \in Workers |-> "none"]
    /\ qid' = [w \in Workers |-> 0]
    /\ attempts' = [w \in Workers |-> 0]
    /\ sawCompleted' = [w \in Workers |-> FALSE]
    /\ rxLock' = 0
    /\ stmtChan' = <<>>
    /\ stmtClosed' = FALSE
    /\ \E s \in 1..NumBlocks : s <= FirstUnemitted /\ nextIn' = s
    /\ proofChan' = <<>>
    /\ proofClosed' = FALSE
    /\ shutdown' = FALSE
    /\ finished' = FALSE
    /\ nFinish' = 0
    /\ UNCHANGED <<daemon, builderVars, nWorkers, histVars, dbVars, remoteVars, ingVars,
                   setVars>>

\* One step of worker w of the pool.
WorkerStep(w) ==
    \/ LbLock(w)
    \/ LbRecv(w)
    \/ LbLookup(w)
    \/ LbSendUnwrap(w)
    \/ LbWaitSleep(w)
    \/ LbWaitPoll(w)
    \/ LbGetProof(w)
    \/ TgGetQueryId(w)
    \/ TgSubmit(w)
    \/ TgAddQueryId(w)
    \/ TgPoll(w)
    \/ TgGetTrace(w)
    \/ LbAddPie(w)
    \/ LbSubmitProof(w)
    \/ LbAddQueryId(w)
    \/ LbSendSelect(w)

\* One step of some worker of the pool.
BridgeStep ==
    \/ \E w \in Spawned : LbLock(w)
    \/ \E w \in Spawned : LbRecv(w)
    \/ \E w \in Spawned : LbLookup(w)
    \/ \E w \in Spawned : LbSendUnwrap(w)
    \/ \E w \in Spawned : LbWaitSleep(w)
    \/ \E w \in Spawned : LbWaitPoll(w)
    \/ \E w \in Spawned : LbGetProof(w)
    \/ \E w \in Spawned : TgGetQueryId(w)
    \/ \E w \in Spawned : TgSubmit(w)
    \/ \E w \in Spawned : TgAddQueryId(w)
    \/ \E w \in Spawned : TgPoll(w)
    \/ \E w \in Spawned : TgGetTrace(w)
    \/ \E w \in Spawned : LbAddPie(w)
    \/ \E w \in Spawned : LbSubmitProof(w)
    \/ \E w \in Spawned : LbAddQueryId(w)
    \/ \E w \in Spawned : LbSendSelect(w)

BridgeEnv ==
    \/ SnosSend
    \/ SnosClose
    \/ DaTake
    \/ DaDrop

\* ----------------------------------------- block ingestor: run() ----
\* prove_block::prove_block(snos, current_block, ..).await: Ok or Err for a
\* block of the chain, Err (BlockNotFound) past its tip; the chain has the
\* blocks start_block .. start_block + NumBlocks - 1.
IngProve ==
    /\ daemon = "ingestor"
    /\ ingPc = "prove"
    /\ \/ /\ current_block < start_block + NumBlocks
          /\ ingPc' = "fetch"
       \/ ingPc' = "backoff"
    /\ UNCHANGED <<daemon, builderVars, handleVars, bridgeVars, start_block, current_block,
                   blockChan, blockClosed, ingOut, setVars>>

\* IngBackoff with the failed block given up: current_block is advanced
\* before the retry.
IngBackoffSkip ==
    /\ daemon = "ingestor"
    /\ ingPc = "backoff"
    /\ \/ /\ shutdown
          /\ ingPc' = "finish"
          /\ UNCHANGED current_block
       \/ /\ ~shutdown
          /\ ingPc' = "prove"
          /\ current_block' = current_block + 1
    /\ UNCHANGED <<daemon, builderVars, handleVars, bridgeVars, start_block, blockChan,
                   blockClosed, ingOut, setVars>>

\* IngBackoff with a failure treated as fatal: the loop is left after the
\* backoff whether or not shutdown was requested.
IngBackoffGiveUp ==
    /\ daemon = "ingestor"
    /\ ingPc = "backoff"
    /\ ingPc' = "finish"
    /\ UNCHANGED <<daemon, builderVars, handleVars, bridgeVars, start_block,
                   current_block, blockChan, blockClosed, ingOut, setVars>>

\* Err(err): select! { shutdown_requested() => break,
\*                     sleep(PROVE_BLOCK_FAILURE_BACKOFF) => continue }
\* A sleep that has not elapsed is pending when the select is polled, so with
\* shutdown requested the first branch is the one that is ready.
IngBackoff ==
    /\ daemon = "ingestor"
    /\ ingPc = "backoff"
    /\ \/ /\ shutdown
          /\ ingPc' = "finish"
       \/ /\ ~shutdown
          /\ ingPc' = "prove"
    /\ UNCHANGED <<daemon, builderVars, handleVars, bridgeVars, start_block, current_block,
                   blockChan, blockClosed, ingOut, setVars>>

\* get_block_with_tx_hashes(..).await.unwrap(), File::create(..).unwrap(),
\* serde_json::to_writer(..).unwrap()
IngFetch ==
    /\ daemon = "ingestor"
    /\ ingPc = "fetch"
    /\ \/ ingPc' = "probe"
       \/ ingPc' = "panic_unwrap"
    /\ UNCHANGED <<daemon, builderVars, handleVars, bridgeVars, start_block, current_block,
                   blockChan, blockClosed, ingOut, setVars>>

\* IngProbe without the test: the send is always attempted.
IngProbeNoTest ==
    /\ daemon = "ingestor"
    /\ ingPc = "probe"
    /\ ingPc' = "send"
    /\ UNCHANGED <<daemon, builderVars, handleVars, bridgeVars, start_block,
                   current_block, blockChan, blockClosed, ingOut, setVars>>

\* if self.finish_handle.is_shutdown_requested() { break }
IngProbe ==
    /\ daemon = "ingestor"
    /\ ingPc = "probe"
    /\ ingPc' = IF shutdown THEN "finish" ELSE "send"
    /\ UNCHANGED <<daemon, builderVars, handleVars, bridgeVars, start_block, current_block,
                   blockChan, blockClosed, ingOut, setVars>>

\* select! { shutdown_requested() => break, channel.send(new_block) => {} }
\* self.current_block += 1
IngSend ==
    /\ daemon = "ingestor"
    /\ ingPc = "send"
    /\ \/ /\ shutdown
          /\ ingPc' = "finish"
          /\ UNCHANGED <<current_block, blockChan, ingOut>>
       \/ /\ ~blockClosed
          /\ Len(blockChan) < ChanCap
          /\ blockChan' = Append(blockChan, current_block)
          /\ ingOut' = Append(ingOut, current_block)
          /\ current_block' = current_block + 1
          /\ ingPc' = "prove"
       \/ /\ blockClosed
          /\ current_block' = current_block + 1
          /\ ingPc' = "prove"
          /\ UNCHANGED <<blockChan, ingOut>>
    /\ UNCHANGED <<daemon, builderVars, handleVars, bridgeVars, start_block, blockClosed,
                   setVars>>

\* self.finish_handle.finish()
IngFinish ==
    /\ daemon = "ingestor"
    /\ ingPc = "finish"
    /\ ingPc' = "done"
    /\ finished' = TRUE
    /\ nFinish' = nFinish + 1
    /\ UNCHANGED <<daemon, builderVars, shutdown, bridgeVars, start_block, current_block,
                   blockChan, blockClosed, ingOut, setVars>>

\* The SNOS prover takes a NewBlock from the channel.
BlockTake ==
    /\ daemon = "ingestor"
    /\ blockChan # <<>>
    /\ ~blockClosed
    /\ blockChan' = Tail(blockChan)
    /\ UNCHANGED <<daemon, builderVars, handleVars, bridgeVars, ingPc, start_block,
                   current_block, blockClosed, ingOut, setVars>>

\* The SNOS prover returns from run() and its Receiver is dropped.
BlockDrop ==
    /\ daemon = "ingestor"
    /\ ~blockClosed
    /\ blockClosed' = TRUE
    /\ blockChan' = <<>>
    /\ UNCHANGED <<daemon, builderVars, handleVars, bridgeVars, ingPc, start_block,
                   current_block, ingOut, setVars>>

IngestorStep ==
    \/ IngProve
    \/ IngBackoff
    \/ IngFetch
    \/ IngProbe
    \/ IngSend
    \/ IngFinish

IngestorEnv ==
    \/ BlockTake
    \/ BlockDrop

\* ------------------------------------- settlement backend: run() ----
\* SetRecv with use_mock_layout_bridge not consulted: the proof is always
\* split and verified.
SetRecvIgnoreMock ==
    /\ daemon = "settlement"
    /\ setPc = "recv"
    /\ \/ /\ shutdown
          /\ setPc' = "finish"
          /\ UNCHANGED <<daChan, setBlk>>
       \/ /\ daChan # <<>>
          /\ setBlk' = Head(daChan)
          /\ daChan' = Tail(daChan)
          /\ setPc' = "split"
       \/ /\ daChan = <<>>
          /\ daClosed
          /\ setPc' = "panic_unwrap"
          /\ UNCHANGED <<daChan, setBlk>>
    /\ nChunks' = 0
    /\ ind' = 0
    /\ nonceFetches' = 0
    /\ UNCHANGED <<daemon, builderVars, handleVars, bridgeVars, ingVars, mock, daClosed,
                   nextDa, nonce, chainNonce, txLog, nConfirmed, cursorChan,
                   cursorClosed, cursors>>

\* select! { shutdown_requested() => break, new_da = da_channel.recv() => .. }
\* let new_da = new_da.unwrap()
SetRecv ==
    /\ daemon = "settlement"
    /\ setPc = "recv"
    /\ \/ /\ shutdown
          /\ setPc' = "finish"
          /\ UNCHANGED <<daChan, setBlk>>
       \/ /\ daChan # <<>>
          /\ setBlk' = Head(daChan)
          /\ daChan' = Tail(daChan)
          /\ setPc' = IF mock THEN "estimate" ELSE "split"
       \/ /\ daChan = <<>>
          /\ daClosed
          /\ setPc' = "panic_unwrap"
          /\ UNCHANGED <<daChan, setBlk>>
    /\ nChunks' = 0
    /\ ind' = 0
    /\ nonceFetches' = 0
    /\ UNCHANGED <<daemon, builderVars, handleVars, bridgeVars, ingVars, mock, daClosed,
                   nextDa, nonce, chainNonce, txLog, nConfirmed, cursorChan,
                   cursorClosed, cursors>>

\* split_proof(..).unwrap(), into_calls(..).collect_calls(..), split_calls(..):
\* the proof splits into integrity_call_chunks.len() chunks
SetSplit ==
    /\ daemon = "settlement"
    /\ setPc = "split"
    /\ \/ \E n \in 1..MaxChunks :
            /\ nChunks' = n
            /\ setPc' = "get_nonce"
       \/ /\ setPc' = "panic_unwrap"
          /\ UNCHANGED nChunks
    /\ UNCHANGED <<daemon, builderVars, handleVars, bridgeVars, ingVars, mock, daChan,
                   daClosed, nextDa, setBlk, ind, nonce, nonceFetches,
                   chainNonce, txLog, nConfirmed, cursorChan, cursorClosed,
                   cursors>>

\* let mut nonce = self.account.get_nonce().await.unwrap()
SetGetNonce ==
    /\ daemon = "settlement"
    /\ setPc = "get_nonce"
    /\ \/ /\ nonce' = chainNonce
          /\ nonceFetches' = nonceFetches + 1
          /\ setPc' = "send_chunk"
       \/ /\ setPc' = "panic_unwrap"
          /\ UNCHANGED <<nonce, nonceFetches>>
    /\ UNCHANGED <<daemon, builderVars, handleVars, bridgeVars, ingVars, mock, daChan,
                   daClosed, nextDa, setBlk, nChunks, ind, chainNonce, txLog,
                   nConfirmed, cursorChan, cursorClosed, cursors>>

\* account.execute_v3(chunk).nonce(nonce).send().await.unwrap()
SetSendChunk ==
    /\ daemon = "settlement"
    /\ setPc = "send_chunk"
    /\ \/ /\ txLog' = Append(txLog, [kind |-> "integrity", blk |-> setBlk,
                                     chunk |-> ind, nonce |-> nonce])
          /\ setPc' = "watch_chunk"
       \/ /\ setPc' = "panic_unwrap"
          /\ UNCHANGED txLog
    /\ UNCHANGED <<daemon, builderVars, handleVars, bridgeVars, ingVars, mock, daChan,
                   daClosed, nextDa, setBlk, nChunks, ind, nonce, nonceFetches,
                   chainNonce, nConfirmed, cursorChan, cursorClosed, cursors>>

\* SetWatchChunk without nonce += Felt::ONE.
SetWatchChunkSameNonce ==
    /\ daemon = "settlement"
    /\ setPc = "watch_chunk"
    /\ \/ /\ nConfirmed' = nConfirmed + 1
          /\ chainNonce' = chainNonce + 1
          /\ ind' = ind + 1
          /\ setPc' = IF ind + 1 < nChunks THEN "send_chunk" ELSE "estimate"
       \/ /\ setPc' = "panic_unwrap"
          /\ UNCHANGED <<nConfirmed, chainNonce, ind>>
    /\ UNCHANGED <<daemon, builderVars, handleVars, bridgeVars, ingVars, mock, daChan,
                   daClosed, nextDa, setBlk, nChunks, nonce, nonceFetches,
                   txLog, cursorChan, cursorClosed, cursors>>

\* watch_tx(..).await.unwrap(); nonce += Felt::ONE; the next chunk of the loop
SetWatchChunk ==
    /\ daemon = "settlement"
    /\ setPc = "watch_chunk"
    /\ \/ /\ nConfirmed' = nConfirmed + 1
          /\ chainNonce' = chainNonce + 1
          /\ nonce' = nonce + 1
          /\ ind' = ind + 1
          /\ setPc' = IF ind + 1 < nChunks THEN "send_chunk" ELSE "estimate"
       \/ /\ setPc' = "panic_unwrap"
          /\ UNCHANGED <<nConfirmed, chainNonce, nonce, ind>>
    /\ UNCHANGED <<daemon, builderVars, handleVars, bridgeVars, ingVars, mock, daChan,
                   daClosed, nextDa, setBlk, nChunks, nonceFetches, txLog,
                   cursorChan, cursorClosed, cursors>>

\* execution.estimate_fee().await.unwrap()
SetEstimate ==
    /\ daemon = "settlement"
    /\ setPc = "estimate"
    /\ \/ setPc' = "send_update"
       \/ setPc' = "panic_unwrap"
    /\ UNCHANGED <<daemon, builderVars, handleVars, bridgeVars, ingVars, mock, daChan,
                   daClosed, nextDa, setBlk, nChunks, ind, nonce, nonceFetches,
                   chainNonce, txLog, nConfirmed, cursorChan, cursorClosed,
                   cursors>>

\* execution.send().await.unwrap(): no nonce is set on the execution, the
\* account takes the one the chain reports
SetSendUpdate ==
    /\ daemon = "settlement"
    /\ setPc = "send_update"
    /\ \/ /\ txLog' = Append(txLog, [kind |-> "update_state", blk |-> setBlk,
                                     chunk |-> 0, nonce |-> chainNonce])
          /\ setPc' = "watch_update"
       \/ /\ setPc' = "panic_unwrap"
          /\ UNCHANGED txLog
    /\ UNCHANGED <<daemon, builderVars, handleVars, bridgeVars, ingVars, mock, daChan,
                   daClosed, nextDa, setBlk, nChunks, ind, nonce, nonceFetches,
                   chainNonce, nConfirmed, cursorChan, cursorClosed, cursors>>

\* watch_tx(provider, transaction.transaction_hash, ..).await.unwrap()
SetWatchUpdate ==
    /\ daemon = "settlement"
    /\ setPc = "watch_update"
    /\ \/ /\ nConfirmed' = nConfirmed + 1
          /\ chainNonce' = chainNonce + 1
          /\ setPc' = "emit"
       \/ /\ setPc' = "panic_unwrap"
          /\ UNCHANGED <<nConfirmed, chainNonce>>
    /\ UNCHANGED <<daemon, builderVars, handleVars, bridgeVars, ingVars, mock, daChan,
                   daClosed, nextDa, setBlk, nChunks, ind, nonce, nonceFetches,
                   txLog, cursorChan, cursorClosed, cursors>>

\* select! { shutdown_requested() => break, cursor_channel.send(..) => {} }
SetEmit ==
    /\ daemon = "settlement"
    /\ setPc = "emit"
    /\ \/ /\ shutdown
          /\ setPc' = "finish"
          /\ UNCHANGED <<cursorChan, cursors>>
       \/ /\ ~cursorClosed
          /\ Len(cursorChan) < ChanCap
          /\ cursorChan' = Append(cursorChan, setBlk)
          /\ cursors' = Append(cursors, setBlk)
          /\ setPc' = "recv"
       \/ /\ cursorClosed
          /\ setPc' = "recv"
          /\ UNCHANGED <<cursorChan, cursors>>
    /\ UNCHANGED <<daemon, builderVars, handleVars, bridgeVars, ingVars, mock, daChan,
                   daClosed, nextDa, setBlk, nChunks, ind, nonce, nonceFetches,
                   chainNonce, txLog, nConfirmed, cursorClosed>>

\* self.finish_handle.finish()
SetFinish ==
    /\ daemon = "settlement"
    /\ setPc = "finish"
    /\ setPc' = "done"
    /\ finished' = TRUE
    /\ nFinish' = nFinish + 1
    /\ UNCHANGED <<daemon, builderVars, shutdown, bridgeVars, ingVars, mock, daChan,
                   daClosed, nextDa, setBlk, nChunks, ind, nonce, nonceFetches,
                   chainNonce, txLog, nConfirmed, cursorChan, cursorClosed,
                   cursors>>

\* The DA stage sends the next cursor, in ascending block order.
DaSend ==
    /\ daemon = "settlement"
    /\ ~daClosed
    /\ nextDa <= NumBlocks
    /\ Len(daChan) < ChanCap
    /\ daChan' = Append(daChan, nextDa)
    /\ nextDa' = nextDa + 1
    /\ UNCHANGED <<daemon, builderVars, handleVars, bridgeVars, ingVars, setPc, mock,
                   daClosed, setBlk, nChunks, ind, nonce, nonceFetches,
                   chainNonce, txLog, nConfirmed, cursorChan, cursorClosed,
                   cursors>>

\* The DA stage returns from run() and its Sender is dropped.
DaClose ==
    /\ daemon = "settlement"
    /\ ~daClosed
    /\ daClosed' = TRUE
    /\ UNCHANGED <<daemon, builderVars, handleVars, bridgeVars, ingVars, setPc, mock, daChan,
                   nextDa, setBlk, nChunks, ind, nonce, nonceFetches,
                   chainNonce, txLog, nConfirmed, cursorChan, cursorClosed,
                   cursors>>

\* The sink takes a SettlementCursor from cursor_channel.
CursorTake ==
    /\ daemon = "settlement"
    /\ cursorChan # <<>>
    /\ ~cursorClosed
    /\ cursorChan' = Tail(cursorChan)
    /\ UNCHANGED <<daemon, builderVars, handleVars, bridgeVars, ingVars, setPc, mock, daChan,
                   daClosed, nextDa, setBlk, nChunks, ind, nonce, nonceFetches,
                   chainNonce, txLog, nConfirmed, cursorClosed, cursors>>

\* The sink's Receiver is dropped.
CursorDrop ==
    /\ daemon = "settlement"
    /\ ~cursorClosed
    /\ cursorClosed' = TRUE
    /\ cursorChan' = <<>>
    /\ UNCHANGED <<daemon, builderVars, handleVars, bridgeVars, ingVars, setPc, mock, daChan,
                   daClosed, nextDa, setBlk, nChunks, ind, nonce, nonceFetches,
                   chainNonce, txLog, nConfirmed, cursors>>

SettlementStep ==
    \/ SetRecv
    \/ SetSplit
    \/ SetGetNonce
    \/ SetSendChunk
    \/ SetWatchChunk
    \/ SetEstimate
    \/ SetSendUpdate
    \/ SetWatchUpdate
    \/ SetEmit
    \/ SetFinish

SettlementEnv ==
    \/ DaSend
    \/ DaClose
    \/ CursorTake
    \/ CursorDrop

\* --------------------------------------------------- stage builders ----
\* the message of anyhow!(..) for field f, without its quotes
NotSet(f) ==
    CASE f = "start_block" -> "start_block not set"
      [] f = "channel" -> "channel not set"
      [] f = "statement_channel" -> "statement_channel not set"
      [] f = "proof_channel" -> "proof_channel not set"
      [] f = "da_channel" -> "da_channel not set"
      [] f = "cursor_channel" -> "cursor_channel not set"

\* The struct literal of build(): each optional field through
\* .ok_or_else(|| anyhow!(..))?, in the order of the literal.
BuildOutcome(b) ==
    IF Required(b)[1] \notin bldSet[b] THEN NotSet(Required(b)[1])
    ELSE IF Required(b)[2] \notin bldSet[b] THEN NotSet(Required(b)[2])
    ELSE "Ok"

\* A setter of builder b: self.<f> = Some(..); the builder is still owned.
BuilderSetField(b, f) ==
    /\ bldResult[b] = "none"
    /\ f \notin bldSet[b]
    /\ bldSet' = [bldSet EXCEPT ![b] = @ \cup {f}]
    /\ UNCHANGED <<bldResult, daemon, handleVars, bridgeVars, ingVars, setVars>>

\* build(self) of builder b returning r.
BuildReturns(b, r) ==
    /\ bldResult[b] = "none"
    /\ bldResult' = [bldResult EXCEPT ![b] = r]
    /\ UNCHANGED <<bldSet, daemon, handleVars, bridgeVars, ingVars, setVars>>

\* PollingBlockIngestorBuilder::start_block, ::channel
IngBuilderSet(f) == BuilderSetField("ingestor", f)

\* IngBuild with the channel field not tested.
IngBuildNoChannelTest ==
    BuildReturns("ingestor", IF "start_block" \notin bldSet["ingestor"]
                             THEN NotSet("start_block") ELSE "Ok")

\* PollingBlockIngestorBuilder::build
IngBuild == BuildReturns("ingestor", BuildOutcome("ingestor"))

\* AtlanticLayoutBridgeProverBuilder::statement_channel, ::proof_channel
LbBuilderSet(f) == BuilderSetField("bridge", f)

\* AtlanticLayoutBridgeProverBuilder::build
LbBuild == BuildReturns("bridge", BuildOutcome("bridge"))

\* PiltoverSettlementBackendBuilder::da_channel, ::cursor_channel
SetBuilderSet(f) == BuilderSetField("settlement", f)

\* PiltoverSettlementBackendBuilder::build: provider.chain_id().await? comes
\* before the struct literal
SetBuild ==
    \E rpcOk \in BOOLEAN :
        BuildReturns("settlement", IF rpcOk THEN BuildOutcome("settlement")
                                   ELSE "chain_id failed")

BuilderNext ==
    \/ \E f \in Fields("ingestor") : IngBuilderSet(f)
    \/ IngBuild
    \/ \E f \in Fields("bridge") : LbBuilderSet(f)
    \/ LbBuild
    \/ \E f \in Fields("settlement") : SetBuilderSet(f)
    \/ SetBuild

\* ------------------------------------------------- specifications ----
Next ==
    \/ RequestShutdown
    \/ BridgeStep
    \/ LbFinish
    \/ BridgeEnv
    \/ CrashRestart
    \/ IngestorStep
    \/ IngestorEnv
    \/ SettlementStep
    \/ SettlementEnv

Spec == Init /\ [][Next]_vars

\* The runtime polls every task that can take a step; nothing is assumed of
\* the environment (the controller, the neighbouring stages, the remote
\* prover, the chain).
Fairness ==
    /\ \A w \in Workers : WF_vars(WorkerStep(w))
    /\ WF_vars(LbFinish)
    /\ WF_vars(IngestorStep)
    /\ WF_vars(SettlementStep)

FairSpec == Spec /\ Fairness

\* Each daemon on its own.
BridgeNext ==
    \/ RequestShutdown
    \/ BridgeStep
    \/ LbFinish
    \/ BridgeEnv
    \/ CrashRestart

BridgeInit == Init /\ daemon = "bridge"

BridgeSpec == BridgeInit /\ [][BridgeNext]_vars

IngestorNext ==
    \/ RequestShutdown
    \/ IngestorStep
    \/ IngestorEnv

IngestorInit == Init /\ daemon = "ingestor"

IngestorSpec == IngestorInit /\ [][IngestorNext]_vars

\* The ingestor under a runtime that polls its task.
FairIngestorSpec == IngestorSpec /\ WF_vars(IngestorStep)

SettlementNext ==
    \/ RequestShutdown
    \/ SettlementStep
    \/ SettlementEnv

SettlementInit == Init /\ daemon = "settlement"

SettlementSpec == SettlementInit /\ [][SettlementNext]_vars

\* The builders of the three stages, from new() to build().
BuilderInit == InitStages /\ InitBuilders

BuilderSpec == BuilderInit /\ [][BuilderNext]_vars

\* ------------------------------------------------------- properties ----
TgPcs == {"tg_get_qid", "tg_submit", "tg_add_qid", "tg_poll", "tg_get_trace"}
SendPcs == {"send_hit", "send_resume", "send_fresh"}

\* Worker w took a step.
Moved(w) == pc'[w] # pc[w]
\* A step of the running process (not its death and restart).
SameRun == crashes' = crashes
\* Worker w took a SnosProof from statement_channel.
Receives(w) == pc[w] = "recv" /\ pc'[w] = "lookup"
\* A RecursiveProof was accepted by proof_channel.
Forwards == Len(emitted') > Len(emitted)
\* A job was submitted to the remote prover for block b.
SubmitsProof(b) == nSubmitProof'[b] # nSubmitProof[b]
SubmitsTrace(b) == nSubmitTrace'[b] # nSubmitTrace[b]

\* C1: the remote prover receives at most one submit_proof_generation call and
\* at most one submit_trace_generation call per block number, across crashes,
\* restarts and retried trace-generation attempts.
C1_AtMostOneSubmitPerBlock ==
    \A b \in Blocks : nSubmitProof[b] <= 1 /\ nSubmitTrace[b] <= 1

\* The run has consumed its whole input and no worker was stopped: every
\* block was sent by the SNOS prover, statement_channel is drained, no worker
\* holds a block or has panicked, no shutdown was requested and the DA stage
\* still listens.
RunComplete ==
    /\ daemon = "bridge"
    /\ nextIn = NumBlocks + 1
    /\ stmtChan = <<>>
    /\ \A w \in Spawned : pc[w] \in {"idle", "recv", "exit"}
    /\ ~shutdown
    /\ ~proofClosed

C3_IngestorMonotonic ==
    \A i \in 1..Len(ingOut) : ingOut[i] = start_block + (i - 1)

\* C3 witness: two blocks were sent and the ingestor is backing off on the
\* failure to prove the next one.
C3_Witness ==
    /\ Len(ingOut) >= 2
    /\ ingPc = "backoff"

\* What a daemon does: sends, storage writes, remote-prover calls,
\* transactions (every one of them moves a task of the daemon).
EffectVars ==
    <<pc, emitted, dbVars, remoteVars, ingPc, ingOut, current_block, setPc,
      txLog, cursors, nonceFetches>>

\* C4: once a stage has called finish() it performs no further send, storage
\* write, remote-prover call or transaction, and the layout-bridge stage
\* calls finish() only after all of its workers have terminated.
C4_NoEffectAfterFinish ==
    [][/\ (finished /\ SameRun) => UNCHANGED EffectVars
       /\ (finished' /\ daemon = "bridge")
             => \A w \in Spawned : pc'[w] \in Terminated]_vars

\* C4 witness: the layout-bridge stage has finished with two workers, one
\* stopped by a panic and one that left its loop.
C4_Witness ==
    /\ finished
    /\ daemon = "bridge"
    /\ nWorkers = 2
    /\ pc[1] \in PanicPcs
    /\ pc[2] = "exit"

\* C5: for a block whose query_id(block, BridgeProof) is persisted and whose
\* proof is not, the worker polls that job, downloads and persists the proof
\* and forwards the RecursiveProof; neither submit_proof_generation nor the
\* trace generator is called for the block.
C5_ResumeSubmitsNothing ==
    [][\A w \in Spawned :
          /\ (pc[w] = "lookup" /\ Moved(w) /\ SameRun
                /\ ~proofDb[blk[w]] /\ proofQidDb[blk[w]] # 0)
                => /\ pc'[w] = "wait_sleep"
                   /\ path'[w] = "resume"
                   /\ qid'[w] = proofQidDb[blk[w]]
          /\ (path[w] = "resume" /\ SameRun)
                => /\ ~SubmitsProof(blk[w])
                   /\ ~SubmitsTrace(blk[w])
                   /\ pc'[w] \notin TgPcs \cup {"add_pie", "submit_proof",
                                                "add_qid"}
                   /\ qid'[w] \in {proofQidDb[blk[w]], 0}
                   /\ (pc'[w] = "send_resume")
                         => /\ proofDb'[blk[w]]
                            /\ sawCompleted'[w] \/ shutdown
                   /\ (Forwards /\ Moved(w))
                         => /\ pc[w] = "send_resume"
                            /\ emitted'[Len(emitted')].blk = blk[w]]_vars

\* C5 witness: after a restart a worker forwards from the resumed job: the
\* one job submitted before the crash was polled to Completed.
C5_Witness ==
    \E w \in Spawned :
        /\ pc[w] = "send_resume"
        /\ sawCompleted[w]
        /\ crashes = 1
        /\ nSubmitProof[blk[w]] = 1
        /\ proofDb[blk[w]]

\* C6: for a block whose proof(block, Bridge) is persisted the worker forwards
\* the RecursiveProof built from the stored proof and makes no remote-prover
\* call, does not invoke the trace generator and writes nothing to storage.
C6_CacheHitOnlyForwards ==
    [][\A w \in Spawned :
          /\ (pc[w] = "lookup" /\ Moved(w) /\ SameRun /\ proofDb[blk[w]])
                => /\ pc'[w] = "send_hit"
                   /\ path'[w] = "hit"
          /\ (path[w] = "hit" /\ Moved(w) /\ SameRun)
                => /\ pc[w] = "send_hit"
                   /\ UNCHANGED <<dbVars, remoteVars>>
                   /\ \/ /\ pc'[w] = "idle"
                         /\ emitted' = Append(emitted, [blk |-> blk[w],
                                                        run |-> crashes])
                      \/ /\ pc'[w] = "panic_unwrap"
                         /\ proofClosed
                         /\ UNCHANGED emitted]_vars

\* C6 witness: a block forwarded before the crash (so its proof was stored)
\* was received again after the restart and forwarded a second time.
C6_Witness ==
    \E i, j \in 1..Len(emitted) :
        /\ i < j
        /\ emitted[i].blk = emitted[j].blk
        /\ emitted[i].run = 0
        /\ emitted[j].run = 1
        /\ proofDb[emitted[j].blk]
        /\ nSubmitProof[emitted[j].blk] = 1

\* The transactions of block b, in the order they were sent.
TxOf(b) == SelectSeq(txLog, LAMBDA t : t.blk = b)

\* C7: for a cursor whose proof splits into N chunks (mock off) the nonce is
\* fetched once, N integrity transactions are sent in chunk order with the
\* nonces n, n+1, .., n+N-1, each after the one before it was confirmed, and
\* only after all N are confirmed exactly one update_state is sent.
C7_SequentialChunksThenUpdate ==
    (daemon = "settlement" /\ ~mock) =>
        \* a transaction is sent only when all before it are confirmed, and
        \* carries the nonce the account has then
        /\ nConfirmed >= Len(txLog) - 1
        /\ \A i \in 1..Len(txLog) :
              txLog[i].nonce = (chainNonce - nConfirmed) + (i - 1)
        /\ nonceFetches <= 1
        /\ \A b \in Blocks :
              LET t == TxOf(b)
                  last == Len(t)
              IN /\ \A i \in 1..last :
                       \/ t[i].kind = "integrity" /\ t[i].chunk = i - 1
                       \/ t[i].kind = "update_state" /\ i = last /\ i > 1
                 /\ \A i \in 1..last : t[i].nonce = t[1].nonce + (i - 1)
        /\ setPc \in {"send_chunk", "watch_chunk"} =>
              /\ nonceFetches = 1
              /\ Len(TxOf(setBlk)) = ind + (IF setPc = "watch_chunk" THEN 1 ELSE 0)
              /\ ind < nChunks
        /\ setPc \in {"watch_update", "emit"} =>
              /\ nonceFetches = 1
              /\ Len(TxOf(setBlk)) = nChunks + 1
              /\ TxOf(setBlk)[nChunks + 1].kind = "update_state"
        /\ setPc = "emit" => nConfirmed = Len(txLog)

\* C7 witness: a proof that split into two chunks has been settled.
C7_Witness ==
    /\ daemon = "settlement"
    /\ ~mock
    /\ setPc = "emit"
    /\ nChunks = 2
    /\ setBlk = 2

\* A worker was stopped by a remote job that reported Failed.
JobFailed == \E w \in Spawned : pc[w] = "panic_job_failed"

\* C8: when the remote prover reports Failed for a block's job the stage
\* aborts as a whole: from then on no worker receives a SnosProof, submits a
\* job or forwards a RecursiveProof, and no proof record is written for the
\* failed block.
C8_FailedJobAbortsStage ==
    [][(JobFailed /\ SameRun) =>
          /\ \A w \in Spawned : ~Receives(w)
          /\ \A b \in Blocks : ~SubmitsProof(b) /\ ~SubmitsTrace(b)
          /\ ~Forwards
          /\ \A w \in Spawned :
                pc[w] = "panic_job_failed" => ~proofDb'[blk[w]]]_vars

\* The process will not be restarted again, and run() was not killed by a
\* panic of its own task.
StageAlive ==
    /\ daemon = "bridge" => crashes = MaxCrashes
    /\ ingPc # "panic_unwrap"
    /\ setPc # "panic_unwrap"

\* C9: after shutdown is requested every stage eventually calls finish(),
\* exactly once, from every state it can be in when the request arrives.
C9_ShutdownLeadsToFinish ==
    /\ [](nFinish <= 1)
    /\ [](shutdown /\ StageAlive => <>(finished \/ ~StageAlive))

\* C10: every send of an output item is selected against the shutdown signal:
\* a task at a send, with shutdown requested, can leave the send and exit.
C10_EverySendSelectsShutdown ==
    /\ \A w \in Spawned :
          (pc[w] \in SendPcs /\ shutdown)
             => ENABLED (WorkerStep(w) /\ pc'[w] = "exit")
    /\ (ingPc = "send" /\ shutdown) => ENABLED (IngSend /\ ingPc' = "finish")
    /\ (setPc = "emit" /\ shutdown) => ENABLED (SetEmit /\ setPc' = "finish")

\* Worker w left the wait loop through `if is_shutdown_requested() { break }`:
\* past the loop with no Completed status seen.
ObservedShutdown(w) ==
    /\ pc[w] \in {"get_proof", "send_resume", "send_fresh"}
    /\ ~sawCompleted[w]

\* C11: a worker downloads and persists proof(block, Bridge) only after a
\* status poll returned Completed for the PROOF_GENERATION job of its query.
C11_PersistOnlyAfterCompleted ==
    [][\A w \in Spawned :
          (pc[w] = "get_proof" /\ Moved(w) /\ SameRun) => sawCompleted[w]]_vars

\* C12: a worker that has observed the shutdown request performs no storage
\* write, remote-prover call or channel send before it leaves its loop; the
\* ingestor and the settlement backend, once they have observed it, only
\* call finish().
C12_NoEffectAfterObservedShutdown ==
    [][/\ \A w \in Spawned :
             (ObservedShutdown(w) /\ Moved(w) /\ SameRun)
                => /\ UNCHANGED <<dbVars, remoteVars, emitted>>
                   /\ pc'[w] = "exit"
       /\ ingPc = "finish" => UNCHANGED <<ingOut, current_block>>
       /\ setPc = "finish" => UNCHANGED <<txLog, cursors, nonceFetches>>]_vars

\* C13: a worker whose input channel is closed and empty leaves its loop
\* normally: the layout-bridge worker exits, the settlement backend goes on
\* to finish(); neither panics.
C13_ClosedInputExitsNormally ==
    [][/\ \A w \in Spawned :
             (pc[w] = "recv" /\ stmtClosed /\ stmtChan = <<>> /\ Moved(w)
                /\ SameRun) => pc'[w] = "exit"
       /\ (setPc = "recv" /\ daClosed /\ daChan = <<>> /\ setPc' # setPc)
             => setPc' = "finish"]_vars

\* C14: a query_id recorded for (block, BridgeTrace) or (block, BridgeProof)
\* is never replaced by another one, and a worker is about to call
\* add_query_id only while no record exists for its key.
C14_QueryIdRecordedOnce ==
    [][/\ \A b \in Blocks :
             /\ proofQidDb[b] # 0 => proofQidDb'[b] = proofQidDb[b]
             /\ traceQidDb[b] # 0 => traceQidDb'[b] = traceQidDb[b]
       /\ \A w \in Spawned :
             /\ pc[w] = "tg_add_qid" => traceQidDb[blk[w]] = 0
             /\ pc[w] = "add_qid" => proofQidDb[blk[w]] = 0]_vars

\* C14 witness: after a restart a worker starts generate_trace for a block
\* whose query_id(block, BridgeTrace) was recorded by the run before the
\* crash.
C14_Witness ==
    \E w \in Spawned :
        /\ pc[w] = "tg_get_qid"
        /\ attempts[w] = 0
        /\ crashes = 1
        /\ traceQidDb[blk[w]] # 0

\* C15: for one block a worker invokes the trace generator at most
\* MAX_ATTEMPTS times in a run; it retries after a failed first or second
\* attempt, and after the third failed attempt it panics, with no pie
\* persisted and no proof job submitted for the block, and does nothing more.
C15_AtMostThreeTraceAttempts ==
    [][\A w \in Spawned :
          /\ pc[w] \in TgPcs => attempts[w] < MAX_ATTEMPTS
          /\ (pc[w] \in TgPcs /\ SameRun /\ attempts'[w] = attempts[w] + 1)
                => IF attempts'[w] < MAX_ATTEMPTS
                   THEN pc'[w] = "tg_get_qid"
                   ELSE pc'[w] = "panic_trace_exhausted"
          /\ pc[w] = "panic_trace_exhausted"
                => /\ attempts[w] = MAX_ATTEMPTS
                   /\ ~pieDb[blk[w]]
                   /\ nSubmitProof[blk[w]] = 0
                   /\ SameRun => /\ ~Moved(w)
                                 /\ ~SubmitsProof(blk[w])
                                 /\ ~SubmitsTrace(blk[w])
                                 /\ pieDb'[blk[w]] = pieDb[blk[w]]]_vars

\* C15 witness: a worker has panicked after its third failed attempt.
C15_Witness ==
    \E w \in Spawned :
        /\ pc[w] = "panic_trace_exhausted"
        /\ attempts[w] = MAX_ATTEMPTS

\* C16: when generate_trace succeeds, on the third attempt as on any other,
\* the query id it used is the one recorded for (block, BridgeTrace) and the
\* record is written once; the worker then persists the pie and submits the
\* proof job (or is stopped by an unwrap on the way).
C16_FlakyTraceThenProceeds ==
    [][\A w \in Spawned :
          /\ (pc[w] = "tg_get_trace" /\ pc'[w] = "add_pie" /\ SameRun)
                => /\ qid[w] # 0
                   /\ traceQidDb[blk[w]] = qid[w]
          /\ (pc[w] \in TgPcs \cup {"add_pie", "submit_proof"} /\ SameRun
                /\ traceQidDb[blk[w]] # 0)
                => traceQidDb'[blk[w]] = traceQidDb[blk[w]]
          /\ (pc[w] = "add_pie" /\ Moved(w) /\ SameRun)
                => \/ pc'[w] = "submit_proof" /\ pieDb'[blk[w]]
                   \/ pc'[w] = "panic_unwrap"
          /\ (pc[w] = "submit_proof" /\ Moved(w) /\ SameRun)
                => \/ pc'[w] = "add_qid" /\ SubmitsProof(blk[w])
                   \/ pc'[w] = "panic_unwrap"]_vars

\* C16 witness: two attempts failed, the third succeeded, the pie is
\* persisted and the worker is about to submit the proof job.
C16_Witness ==
    \E w \in Spawned :
        /\ pc[w] = "submit_proof"
        /\ attempts[w] = 2
        /\ pieDb[blk[w]]
        /\ traceQidDb[blk[w]] # 0

\* C17: with use_mock_layout_bridge true the settlement backend fetches no
\* nonce and sends no integrity transaction; for each cursor it sends exactly
\* one transaction, the update_state call, before it emits the
\* SettlementCursor of the block.
C17_MockSendsOnlyUpdateState ==
    (daemon = "settlement" /\ mock) =>
        /\ nonceFetches = 0
        /\ \A i \in 1..Len(txLog) : txLog[i].kind = "update_state"
        /\ \A b \in Blocks : Len(TxOf(b)) <= 1
        /\ setPc \in {"estimate", "send_update"} => Len(TxOf(setBlk)) = 0
        /\ setPc \in {"watch_update", "emit"} => Len(TxOf(setBlk)) = 1
        /\ setPc = "emit" => nConfirmed = Len(txLog)
        /\ \A i \in 1..Len(cursors) : Len(TxOf(cursors[i])) = 1

\* C17 witness: with the mock on, two cursors were settled with one
\* update_state each and the second SettlementCursor was emitted.
C17_Witness ==
    /\ daemon = "settlement"
    /\ mock
    /\ Len(cursors) = 2
    /\ Len(txLog) = 2

\* The required fields builder b was built without.
Missing(b) == Fields(b) \ bldSet[b]

\* C18 as stated: build() returns an error whenever a required field was not
\* set and returns a stage when all of them were set.
C18_BuildOkIffAllSet ==
    \A b \in Daemons :
        bldResult[b] # "none" => (bldResult[b] = "Ok" <=> Missing(b) = {})

\* C18: build() returns an error, and no stage, whenever a required field was
\* not set; with all of them set it returns a stage, except that the
\* settlement builder returns the error of its chain_id request when that
\* request fails.
C18_BuildFailsOnMissingField ==
    \A b \in Daemons :
        bldResult[b] # "none" =>
            /\ Missing(b) # {} => bldResult[b] # "Ok"
            /\ (Missing(b) # {} /\ bldResult[b] # "chain_id failed")
                  => \E f \in Missing(b) : bldResult[b] = NotSet(f)
            /\ Missing(b) = {} =>
                  \/ bldResult[b] = "Ok"
                  \/ b = "settlement" /\ bldResult[b] = "chain_id failed"

\* C18 witness: the ingestor builder failed for its missing channel, the
\* layout-bridge builder returned a stage and the settlement builder, with
\* both channels set, failed on chain_id.
C18_Witness ==
    /\ bldSet["ingestor"] = {"start_block"}
    /\ bldResult["ingestor"] = NotSet("channel")
    /\ bldSet["bridge"] = Fields("bridge")
    /\ bldResult["bridge"] = "Ok"
    /\ bldSet["settlement"] = Fields("settlement")
    /\ bldResult["settlement"] = "chain_id failed"

\* C19: when proving of current_block fails the ingestor sends nothing and
\* keeps current_block; after the backoff it proves the same block again,
\* and it leaves the loop from the backoff only on a shutdown request.
C19_ProveFailureRetriesSameBlock ==
    [][/\ (ingPc = "prove" /\ ingPc' = "backoff")
             => UNCHANGED <<current_block, ingOut, blockChan>>
       /\ ingPc = "backoff" => UNCHANGED <<current_block, ingOut>>
       /\ (ingPc = "backoff" /\ ingPc' # ingPc)
             => IF shutdown THEN ingPc' = "finish" ELSE ingPc' = "prove"]_vars

\* C19 witness: the first block was sent, proving of the second failed and
\* the ingestor waits to retry it.
C19_Witness ==
    /\ ingPc = "backoff"
    /\ ~shutdown
    /\ ingOut = <<start_block>>
    /\ current_block = start_block + 1

\* C20: with shutdown requested when the ingestor tests it after proving, or
\* when the shutdown branch wins the select against the send, no NewBlock is
\* sent for current_block, current_block is not advanced, the loop is left
\* and finish() is called.
C20_ShutdownDropsBlockAndFinishes ==
    /\ [][/\ (ingPc = "probe" /\ shutdown /\ ingPc' # ingPc)
                => /\ ingPc' = "finish"
                   /\ UNCHANGED <<current_block, ingOut, blockChan>>
          /\ (ingPc = "send" /\ ingPc' = "finish")
                => /\ shutdown
                   /\ UNCHANGED <<current_block, ingOut, blockChan>>
          /\ ingPc = "finish" => UNCHANGED <<current_block, ingOut>>]_vars
    /\ [](ingPc = "finish" => <>finished)
    /\ [](nFinish <= 1)

\* C20 witness: the ingestor sent one block, left the loop on shutdown at
\* the next one and called finish() with current_block still at that block.
C20_Witness ==
    /\ daemon = "ingestor"
    /\ finished
    /\ shutdown
    /\ ingOut = <<start_block>>
    /\ current_block = start_block + 1
    /\ Len(blockChan) = ChanCap

\* C21: on the fresh path the query id of (block, BridgeProof) is written
\* after submit_proof_generation returned and before the first status poll:
\* a worker about to write holds the id of the job it just submitted, and
\* whenever a worker sleeps before or polls a proof job, that job's id is the
\* persisted record of its block.
C21_QueryIdPersistedBeforePolling ==
    \A w \in Spawned :
       /\ pc[w] = "add_qid" =>
             qid[w] # 0 /\ qid[w] = nSubmitProof[blk[w]]
       /\ pc[w] \in {"wait_sleep", "wait_poll"} =>
             qid[w] # 0 /\ proofQidDb[blk[w]] = qid[w]

\* A worker on the fresh path polls the job it submitted.
C21_Witness ==
    \E w \in Spawned :
       /\ path[w] = "fresh"
       /\ pc[w] = "wait_poll"
       /\ qid[w] = nSubmitProof[blk[w]]
       /\ proofQidDb[blk[w]] = qid[w]

\* C22: when persisting query_id(block, BridgeTrace) still fails after the 3
\* attempts of retry_with_backoff, the failure is fatal: the worker does not
\* go on to poll the job and does not start trace generation for the block
\* again.
C22_PersistFailureIsFatal ==
    [][\A w \in Workers :
          (pc[w] = "tg_add_qid" /\ Moved(w) /\ SameRun /\ UNCHANGED traceQidDb)
             => pc'[w] \in PanicPcs]_vars

\* C23: the trace generator's poll loop probes the shutdown signal between
\* sleeps: once shutdown is requested no further sleep-and-poll round of the
\* TRACE_GENERATION job can be taken.
C23_TracePollStopsOnShutdown ==
    \A w \in Workers : shutdown => ~ENABLED TgPoll(w)

\* C24: a block whose pie is persisted never has the trace generator or the
\* pie write running for it (with no proof and no proof query id recorded the
\* worker goes from the lookups straight to submit_proof_generation), and
\* submit_proof_generation is only called for a block whose pie is persisted.
C24_PieReusedAndPersistedBeforeSubmit ==
    /\ \A w \in Spawned :
          /\ pc[w] \in TgPcs \cup {"add_pie"} => ~pieDb[blk[w]]
          /\ pc[w] = "submit_proof" => pieDb[blk[w]]
    /\ \A b \in Blocks : nSubmitProof[b] > 0 => pieDb[b]

\* After a restart a worker is about to submit the stored pie of a block that
\* has no proof and no proof query id.
C24_Witness ==
    /\ crashes = 1
    /\ \E w \in Spawned :
          /\ pc[w] = "submit_proof"
          /\ path[w] = "fresh"
          /\ attempts[w] = 0
          /\ pieDb[blk[w]]
          /\ ~proofDb[blk[w]]
          /\ proofQidDb[blk[w]] = 0
          /\ nSubmitProof[blk[w]] = 0

\* C25: every RecursiveProof handed to proof_channel is for a block whose
\* proof(block, Bridge) record is in storage at the moment of the send.
C25_ForwardedProofIsStored ==
    /\ \A w \in Spawned : pc[w] \in SendPcs => proofDb[blk[w]]
    /\ \A i \in 1..Len(emitted) : proofDb[emitted[i].blk]

\* One proof was forwarded and a worker that saw its job Completed is at the
\* send of the next one.
C25_Witness ==
    /\ Len(emitted) = 1
    /\ \E w \in Spawned :
          /\ pc[w] = "send_fresh"
          /\ sawCompleted[w]
          /\ proofDb[blk[w]]
          /\ blk[w] # emitted[1].blk

\* Two items of one run were emitted against the order of their block numbers
\* (the order in which the worker pool received them).
OutOfOrder ==
    \E i, j \in 1..Len(emitted) :
       /\ i < j
       /\ emitted[i].run = emitted[j].run
       /\ emitted[i].blk > emitted[j].blk

\* C26: with one worker the stage emits RecursiveProof items in the order in
\* which their SnosProof items were received; an emission of block b+1 before
\* block b happens only with two or more workers.
C26_SingleWorkerEmitsInOrder == OutOfOrder => nWorkers >= 2

\* With two workers block 2 is emitted before block 1.
C26_Witness == nWorkers = 2 /\ OutOfOrder

\* C27: the ingestor advances current_block past block b only after
\* NewBlock{b} was accepted by the output channel: the blocks delivered are
\* exactly start_block .. current_block - 1.
C27_AdvanceOnlyAfterAccepted ==
    daemon = "ingestor" => current_block = start_block + Len(ingOut)

\* C28: the receiver lock is held only while one worker waits in recv(); each
\* SnosProof is held by exactly one worker; at most one RecursiveProof is sent
\* per received item.
C28_LockOnlyWhileReceiving ==
    /\ rxLock # 0 => pc[rxLock] = "recv"
    /\ \A w \in Spawned : pc[w] = "recv" => rxLock = w
    /\ \A v, w \in Spawned :
          (v # w /\ blk[v] # 0 /\ blk[w] # 0) => blk[v] # blk[w]
    /\ \A i, j \in 1..Len(emitted) :
          (i # j /\ emitted[i].run = emitted[j].run)
             => emitted[i].blk # emitted[j].blk

\* While one worker polls its proof job, the other one has received the next
\* item and polls its own job; the lock is free.
C28_Witness ==
    /\ rxLock = 0
    /\ \E v, w \in Spawned :
          /\ v # w
          /\ pc[v] = "wait_poll"
          /\ pc[w] = "wait_poll"
          /\ blk[v] # blk[w]

=============================================================================
